---- MODULE Spec2Model ----
(***************************************************************************)
(* A model of BufferManager (gralloc4/src/core/mali_gralloc_reference.cpp): *)
(* the process-wide registry of imported buffer handles, its four public   *)
(* operations retain / map / release / validate, the registry mutex, and    *)
(* the handle fields the registry reads and writes.                         *)
(***************************************************************************)
EXTENDS Integers, Sequences, FiniteSets, TLC

(* ------------------------------------------------------------------ *)
(* Bounds of the model and program constants                          *)
(* ------------------------------------------------------------------ *)

\* Descriptor slots of a handle (scaled down); one of them is the metadata fd.
MAX_FDS == 3
MAX_BUFFER_FDS == MAX_FDS - 1

\* Virtual addresses the MemMapper can hand out are 1..MaxAddr; 0 is nullptr.
MaxAddr == 2

\* References a handle may hold at once (ref_count is capped here).
MaxRef == 2

\* Release calls a handle may have had beyond its retain calls.
MaxDebt == 1

\* Writes to handle fields by code outside the registry, over a whole run.
MaxTamper == 1

PAGE_SIZE == 4096
EINVAL == 22

\* Width of off_t / uint64_t in the model (scaled down from 64).
SizeBits == 16

Handles == {"h1", "h2"}
Threads == {"t1", "t2"}
NoThread == "none"

Regions == 1..MAX_BUFFER_FDS
Addrs == 1..MaxAddr
NoFd == -1

\* Errors the external MemMapper may report from map (-ENOMEM).
MapperErrors == {-12}

Zeros == [i \in Regions |-> 0]

(* ------------------------------------------------------------------ *)
(* State                                                              *)
(* ------------------------------------------------------------------ *)

VARIABLES
    buffer_map,   \* std::map<const private_handle_t *, MappedData>
    hnd,          \* the private_handle_t objects, by identity
    lock,         \* owner of BufferManager::lock, or NoThread
    pc,           \* per thread: where it is inside a public operation
    arg,          \* per thread: the handle of the call it is in
    snap,         \* per thread: table and handles as they were when its call began
                  \*   (retain: when it took the mutex)
    obs,          \* the call that returned in the step just taken, if one did
    calls,        \* per handle: completed retain calls minus completed release calls
    okCalls,      \* per handle: the same, counting only the calls that returned 0
    mapCount,     \* per handle: successful MemMapper.map calls since its record was created
    nTamper       \* writes made so far by code outside the registry

vars == <<buffer_map, hnd, lock, pc, arg, snap, obs, calls, okCalls, mapCount, nTamper>>

(* ------------------------------------------------------------------ *)
(* Data                                                               *)
(* ------------------------------------------------------------------ *)

\* struct MappedData, default-initialised.
MappedData == [bases |-> Zeros, alloc_sizes |-> Zeros, ref_count |-> 0]

Pad(s, n, v) == [i \in 1..n |-> IF i <= Len(s) THEN s[i] ELSE v]

\* A private_handle_t together with the OS-side length of the files its fds name.
Handle(wf, fds, fd_count, sizes, attr_size, lens) ==
    [wf          |-> wf,
     fds         |-> Pad(fds, MAX_FDS, NoFd),
     fd_count    |-> fd_count,
     alloc_sizes |-> Pad(sizes, MAX_BUFFER_FDS, 0),
     attr_size   |-> attr_size,
     os_len      |-> Pad(lens, MAX_FDS, -1),
     bases       |-> Zeros,
     attr_base   |-> 0]

\* The handles the model starts from: a sound one-region handle, one whose
\* descriptor is longer than advertised by more than a page, one whose fd_count
\* disagrees with its descriptors, a sound two-region handle whose second length
\* is unknown, and an ill-formed handle.
HandleConfigs ==
    { Handle(TRUE,  <<3, 4>>,    1, <<4096>>,       4096, <<4096, 4096>>),
      Handle(TRUE,  <<3, 4>>,    1, <<4096>>,       4096, <<16384, 4096>>),
      Handle(TRUE,  <<3, 4>>,    2, <<4096, 4096>>, 4096, <<4096, 4096>>),
      Handle(TRUE,  <<3, 4, 5>>, 2, <<4096, 8192>>, 4096, <<8192, -1, 4096>>),
      Handle(FALSE, <<3, 4>>,    1, <<4096>>,       4096, <<4096, 4096>>) }

\* Result of a registry function: status, new table, new handles, external calls made.
Res(r, bm, hs, e) == [ret |-> r, bm |-> bm, hs |-> hs, ext |-> e]

(* ------------------------------------------------------------------ *)
(* Handle and descriptor helpers                                      *)
(* ------------------------------------------------------------------ *)

\* private_handle_t::validate(handle): 0 for a well-formed handle, negative otherwise.
private_handle_validate(hd) == IF hd.wf THEN 0 ELSE -EINVAL

\* get_buffer_size(fd): the length lseek(SEEK_END) reports for the i-th descriptor,
\* -1 when the query fails.
get_buffer_size(hd, i) == hd.os_len[i]

\* (off_t)allocated_size: an unsigned value reinterpreted as signed.
ToOffT(u) == IF u >= 2^(SizeBits - 1) THEN u - 2^SizeBits ELSE u

\* The check_pid lambda: the set of results it can produce. The subtraction is on
\* off_t; where it overflows the result is not defined by the language.
check_pid(hd, i, allocated_size) ==
    LET size         == get_buffer_size(hd, i)
        size_padding == size - ToOffT(allocated_size)
    IN  IF size_padding > 2^(SizeBits - 1) - 1
        THEN BOOLEAN
        ELSE {~((size # -1) /\ ((size_padding < 0) \/ (size_padding > PAGE_SIZE)))}

\* std::find(hnd->fds, hnd->fds + MAX_FDS, -1) - hnd->fds
valid_fd_count(hd) ==
    IF \E i \in 1..MAX_FDS : hd.fds[i] = NoFd
    THEN (CHOOSE i \in 1..MAX_FDS :
              hd.fds[i] = NoFd /\ \A j \in 1..(i - 1) : hd.fds[j] # NoFd) - 1
    ELSE MAX_FDS

\* hnd->get_share_attr_fd(): the descriptor that follows the fd_count buffer fds.
get_share_attr_fd(hd) == hd.fd_count + 1

\* dmabuf_sanity_check(handle): the set of results it can produce.
dmabuf_sanity_check(hd) ==
    IF hd.fd_count # valid_fd_count(hd) - 1
    THEN {FALSE}
    ELSE LET client == [i \in 1..hd.fd_count |-> check_pid(hd, i, hd.alloc_sizes[i])]
             meta   == check_pid(hd, get_share_attr_fd(hd), hd.attr_size)
         IN  {b \in BOOLEAN :
                 IF b THEN (\A i \in 1..hd.fd_count : TRUE \in client[i]) /\ TRUE \in meta
                      ELSE (\E i \in 1..hd.fd_count : FALSE \in client[i]) \/ FALSE \in meta}

(* ------------------------------------------------------------------ *)
(* The external MemMapper (allocator/mali_gralloc_ion.h)              *)
(* ------------------------------------------------------------------ *)

\* What one mali_gralloc_ion_map call on handle hd may do: fail with an error, or
\* succeed with an address for every client-facing region.
MapperOutcomes(hd) ==
    [err : MapperErrors, addr : {<<>>}] \cup [err : {0}, addr : [1..hd.fd_count -> Addrs]]

\* mali_gralloc_ion_map(hnd): on success every client-facing region gets its address;
\* on failure no address is left behind. attr_base is not touched.
mali_gralloc_ion_map(hd, mo) ==
    IF mo.err # 0
    THEN [hd EXCEPT !.bases = Zeros]
    ELSE [hd EXCEPT !.bases = [i \in Regions |-> IF i <= hd.fd_count THEN mo.addr[i] ELSE @[i]]]

\* The status of one mali_gralloc_ion_unmap call: success or an error.
UnmapOutcomes == {0} \cup MapperErrors

\* mali_gralloc_ion_unmap(hnd): the regions are released and hnd->bases cleared.
mali_gralloc_ion_unmap(hd) == [hd EXCEPT !.bases = Zeros]

\* What the MemMapper was seen doing in an unmap call that ended with status uo.
UnmapLog(uo) == IF uo = 0 THEN <<"ion_unmap">> ELSE <<"ion_unmap", "unmap_failed">>

(* ------------------------------------------------------------------ *)
(* BufferManager's functions                                          *)
(* ------------------------------------------------------------------ *)

Insert(bm, h, d) == [x \in DOMAIN bm \cup {h} |-> IF x = h THEN d ELSE bm[x]]
Erase(bm, h) == [x \in DOMAIN bm \ {h} |-> bm[x]]

\* validate_locked with the table lookup's result ignored: an unknown handle passes.
validate_locked_nofind(bm, hs, h) ==
    IF private_handle_validate(hs[h]) < 0 THEN Res(-EINVAL, bm, hs, <<>>)
    ELSE IF h \notin DOMAIN bm THEN Res(0, bm, hs, <<>>)
    ELSE LET data == bm[h] IN
         IF (IF data.bases[1] # 0
             THEN \E i \in Regions : data.bases[i] # hs[h].bases[i]
                                     \/ data.alloc_sizes[i] # hs[h].alloc_sizes[i]
             ELSE \E i \in Regions : hs[h].bases[i] # 0 \/ data.bases[i] # 0)
         THEN Res(-EINVAL, bm, hs, <<>>)
         ELSE Res(0, bm, hs, <<>>)

\* validate_locked looking the handle up with buffer_map[hnd], which inserts an
\* empty record for an unknown handle.
validate_locked_insert(bm, hs, h) ==
    IF private_handle_validate(hs[h]) < 0 THEN Res(-EINVAL, bm, hs, <<>>)
    ELSE LET bm1  == IF h \in DOMAIN bm THEN bm ELSE Insert(bm, h, MappedData)
             data == bm1[h]
         IN  IF (IF data.bases[1] # 0
                 THEN \E i \in Regions : data.bases[i] # hs[h].bases[i]
                                         \/ data.alloc_sizes[i] # hs[h].alloc_sizes[i]
                 ELSE \E i \in Regions : hs[h].bases[i] # 0 \/ data.bases[i] # 0)
             THEN Res(-EINVAL, bm1, hs, <<>>)
             ELSE Res(0, bm1, hs, <<>>)

\* validate_locked comparing region 0 only.
validate_locked_first(bm, hs, h) ==
    IF private_handle_validate(hs[h]) < 0 THEN Res(-EINVAL, bm, hs, <<>>)
    ELSE IF h \notin DOMAIN bm THEN Res(-EINVAL, bm, hs, <<>>)
    ELSE LET data == bm[h] IN
         IF (IF data.bases[1] # 0
             THEN data.bases[1] # hs[h].bases[1]
                  \/ data.alloc_sizes[1] # hs[h].alloc_sizes[1]
             ELSE hs[h].bases[1] # 0 \/ data.bases[1] # 0)
         THEN Res(-EINVAL, bm, hs, <<>>)
         ELSE Res(0, bm, hs, <<>>)

\* int validate_locked(buffer_handle_t handle)
validate_locked(bm, hs, h) ==
    IF private_handle_validate(hs[h]) < 0 THEN Res(-EINVAL, bm, hs, <<>>)
    ELSE IF h \notin DOMAIN bm THEN Res(-EINVAL, bm, hs, <<>>)
    ELSE LET data == bm[h] IN
         IF data.bases[1] # 0
         THEN IF \E i \in Regions : data.bases[i] # hs[h].bases[i]
                                    \/ data.alloc_sizes[i] # hs[h].alloc_sizes[i]
              THEN Res(-EINVAL, bm, hs, <<>>)
              ELSE Res(0, bm, hs, <<>>)
         ELSE IF \E i \in Regions : hs[h].bases[i] # 0 \/ data.bases[i] # 0
              THEN Res(-EINVAL, bm, hs, <<>>)
              ELSE Res(0, bm, hs, <<>>)

\* map_locked without the early return for a buffer that is already mapped.
map_locked_remap(bm, hs, h, sane, mo) ==
    IF h \notin DOMAIN bm THEN Res(-EINVAL, bm, hs, <<>>)
    ELSE IF ~sane THEN Res(-EINVAL, bm, hs, <<>>)
    ELSE LET hd == mali_gralloc_ion_map(hs[h], mo)
             hs2 == [hs EXCEPT ![h] = hd]
         IN  IF mo.err # 0 THEN Res(mo.err, bm, hs2, <<"ion_map">>)
             ELSE Res(0, [bm EXCEPT ![h].bases = hd.bases, ![h].alloc_sizes = hd.alloc_sizes],
                      hs2, <<"ion_map">>)

\* map_locked without the descriptor sanity check.
map_locked_nosanity(bm, hs, h, sane, mo) ==
    IF h \notin DOMAIN bm THEN Res(-EINVAL, bm, hs, <<>>)
    ELSE IF bm[h].bases[1] # 0 THEN Res(0, bm, hs, <<>>)
    ELSE LET hd == mali_gralloc_ion_map(hs[h], mo)
             hs2 == [hs EXCEPT ![h] = hd]
         IN  IF mo.err # 0 THEN Res(mo.err, bm, hs2, <<"ion_map">>)
             ELSE Res(0, [bm EXCEPT ![h].bases = hd.bases, ![h].alloc_sizes = hd.alloc_sizes],
                      hs2, <<"ion_map">>)

\* map_locked copying the handle's addresses and sizes into the record before it
\* looks at the MemMapper's status.
map_locked_eagercopy(bm, hs, h, sane, mo) ==
    IF h \notin DOMAIN bm THEN Res(-EINVAL, bm, hs, <<>>)
    ELSE IF bm[h].bases[1] # 0 THEN Res(0, bm, hs, <<>>)
    ELSE IF ~sane THEN Res(-EINVAL, bm, hs, <<>>)
    ELSE LET hd == mali_gralloc_ion_map(hs[h], mo)
         IN  Res(mo.err, [bm EXCEPT ![h].bases = hd.bases, ![h].alloc_sizes = hd.alloc_sizes],
                 [hs EXCEPT ![h] = hd], <<"ion_map">>)

\* map_locked caching the address and size of region 0 only.
map_locked_copyone(bm, hs, h, sane, mo) ==
    IF h \notin DOMAIN bm THEN Res(-EINVAL, bm, hs, <<>>)
    ELSE IF bm[h].bases[1] # 0 THEN Res(0, bm, hs, <<>>)
    ELSE IF ~sane THEN Res(-EINVAL, bm, hs, <<>>)
    ELSE LET hd == mali_gralloc_ion_map(hs[h], mo)
             hs2 == [hs EXCEPT ![h] = hd]
         IN  IF mo.err # 0 THEN Res(mo.err, bm, hs2, <<"ion_map">>)
             ELSE Res(0, [bm EXCEPT ![h].bases[1] = hd.bases[1],
                                    ![h].alloc_sizes[1] = hd.alloc_sizes[1]],
                      hs2, <<"ion_map">>)

\* map_locked dropping the record of a handle that fails the sanity check.
map_locked_evict(bm, hs, h, sane, mo) ==
    IF h \notin DOMAIN bm THEN Res(-EINVAL, bm, hs, <<>>)
    ELSE IF bm[h].bases[1] # 0 THEN Res(0, bm, hs, <<>>)
    ELSE IF ~sane THEN Res(-EINVAL, Erase(bm, h), hs, <<>>)
    ELSE LET hd == mali_gralloc_ion_map(hs[h], mo)
             hs2 == [hs EXCEPT ![h] = hd]
         IN  IF mo.err # 0 THEN Res(mo.err, bm, hs2, <<"ion_map">>)
             ELSE Res(0, [bm EXCEPT ![h].bases = hd.bases, ![h].alloc_sizes = hd.alloc_sizes],
                      hs2, <<"ion_map">>)

\* int map_locked(buffer_handle_t handle); sane is the sanity check's result and
\* mo the MemMapper's outcome, should the function get that far.
map_locked(bm, hs, h, sane, mo) ==
    IF h \notin DOMAIN bm THEN Res(-EINVAL, bm, hs, <<>>)
    ELSE LET data == bm[h]
             bug  == IF data.ref_count = 0 THEN <<"BUG">> ELSE <<>>
         IN  IF data.bases[1] # 0 THEN Res(0, bm, hs, bug)
             ELSE IF ~sane THEN Res(-EINVAL, bm, hs, bug)
             ELSE LET hd == mali_gralloc_ion_map(hs[h], mo)
                      hs2 == [hs EXCEPT ![h] = hd]
                  IN  IF mo.err # 0 THEN Res(mo.err, bm, hs2, bug \o <<"ion_map">>)
                      ELSE Res(0,
                               [bm EXCEPT ![h] = [data EXCEPT !.bases = hd.bases,
                                                              !.alloc_sizes = hd.alloc_sizes]],
                               hs2, bug \o <<"ion_map">>)

\* retain that counts only the first registration.
retain_locked_nocount(bm, hs, h) ==
    IF h \in DOMAIN bm THEN Res(0, bm, hs, <<>>)
    ELSE Res(0, Insert(bm, h, [MappedData EXCEPT !.ref_count = 1]),
             [hs EXCEPT ![h].bases = Zeros], <<>>)

\* retain that registers a handle without clearing its scratch addresses.
retain_locked_nozero(bm, hs, h) ==
    LET bm1 == IF h \in DOMAIN bm THEN bm ELSE Insert(bm, h, MappedData)
    IN  Res(0, [bm1 EXCEPT ![h].ref_count = @ + 1], hs, <<>>)

\* retain that runs validate_locked on a handle it finds in the table.
retain_locked_validating(bm, hs, h) ==
    IF h \in DOMAIN bm
    THEN IF validate_locked(bm, hs, h).ret # 0 THEN Res(-EINVAL, bm, hs, <<>>)
         ELSE Res(0, [bm EXCEPT ![h].ref_count = @ + 1], hs, <<>>)
    ELSE Res(0, Insert(bm, h, [MappedData EXCEPT !.ref_count = 1]),
             [hs EXCEPT ![h].bases = Zeros], <<>>)

\* BufferManager::retain, from the lock_guard on (lines 178-202).
retain_locked(bm, hs, h) ==
    LET found == h \in DOMAIN bm
        bm1   == IF found THEN bm ELSE Insert(bm, h, MappedData)
        hs1   == IF found THEN hs ELSE [hs EXCEPT ![h].bases = Zeros]
        bug   == IF found /\ bm[h].ref_count = 0 THEN <<"BUG">> ELSE <<>>
    IN  Res(0, [bm1 EXCEPT ![h].ref_count = @ + 1], hs1, bug)

\* release that tears down at zero but leaves the record in the table.
release_locked_noerase(bm, hs, h, uo) ==
    IF h \notin DOMAIN bm THEN Res(-EINVAL, bm, hs, <<>>)
    ELSE IF bm[h].ref_count = 0 THEN Res(-EINVAL, bm, hs, <<"BUG">>)
    ELSE LET n == bm[h].ref_count - 1 IN
         IF n # 0 THEN Res(0, [bm EXCEPT ![h].ref_count = n], hs, <<>>)
         ELSE LET mapped == bm[h].bases[1] # 0
                  hd1 == IF mapped THEN mali_gralloc_ion_unmap(hs[h]) ELSE hs[h]
                  meta == hd1.attr_base # 0
                  hd2 == IF meta THEN [hd1 EXCEPT !.attr_base = 0] ELSE hd1
              IN  Res(0, [bm EXCEPT ![h].ref_count = n], [hs EXCEPT ![h] = hd2],
                      (IF mapped THEN UnmapLog(uo) ELSE <<>>)
                         \o (IF meta THEN <<"munmap">> ELSE <<>>))

\* release with the metadata unmap nested in the branch that unmaps the regions.
release_locked_nested(bm, hs, h, uo) ==
    IF h \notin DOMAIN bm THEN Res(-EINVAL, bm, hs, <<>>)
    ELSE IF bm[h].ref_count = 0 THEN Res(-EINVAL, bm, hs, <<"BUG">>)
    ELSE LET n == bm[h].ref_count - 1 IN
         IF n # 0 THEN Res(0, [bm EXCEPT ![h].ref_count = n], hs, <<>>)
         ELSE LET mapped == bm[h].bases[1] # 0
                  hd1 == IF mapped THEN mali_gralloc_ion_unmap(hs[h]) ELSE hs[h]
                  meta == mapped /\ hd1.attr_base # 0
                  hd2 == IF meta THEN [hd1 EXCEPT !.attr_base = 0] ELSE hd1
              IN  Res(0, Erase(bm, h), [hs EXCEPT ![h] = hd2],
                      (IF mapped THEN UnmapLog(uo) ELSE <<>>)
                         \o (IF meta THEN <<"munmap">> ELSE <<>>))

\* release that gives up with the MemMapper's status when the region unmap fails.
release_locked_strict(bm, hs, h, uo) ==
    IF h \notin DOMAIN bm THEN Res(-EINVAL, bm, hs, <<>>)
    ELSE IF bm[h].ref_count = 0 THEN Res(-EINVAL, bm, hs, <<"BUG">>)
    ELSE LET n == bm[h].ref_count - 1 IN
         IF n # 0 THEN Res(0, [bm EXCEPT ![h].ref_count = n], hs, <<>>)
         ELSE LET mapped == bm[h].bases[1] # 0
                  hd1 == IF mapped THEN mali_gralloc_ion_unmap(hs[h]) ELSE hs[h]
                  meta == hd1.attr_base # 0
                  hd2 == IF meta THEN [hd1 EXCEPT !.attr_base = 0] ELSE hd1
              IN  IF mapped /\ uo # 0
                  THEN Res(uo, [bm EXCEPT ![h].ref_count = n], [hs EXCEPT ![h] = hd1],
                           UnmapLog(uo))
                  ELSE Res(0, Erase(bm, h), [hs EXCEPT ![h] = hd2],
                           (IF mapped THEN UnmapLog(uo) ELSE <<>>)
                              \o (IF meta THEN <<"munmap">> ELSE <<>>))

\* release that unmaps the regions of a mapped record on every call, not only on
\* the one that takes the count to zero.
release_locked_eager(bm, hs, h, uo) ==
    IF h \notin DOMAIN bm THEN Res(-EINVAL, bm, hs, <<>>)
    ELSE IF bm[h].ref_count = 0 THEN Res(-EINVAL, bm, hs, <<"BUG">>)
    ELSE LET n == bm[h].ref_count - 1
             mapped == bm[h].bases[1] # 0
             hd1 == IF mapped THEN mali_gralloc_ion_unmap(hs[h]) ELSE hs[h]
             log1 == IF mapped THEN UnmapLog(uo) ELSE <<>>
         IN  IF n # 0 THEN Res(0, [bm EXCEPT ![h].ref_count = n], [hs EXCEPT ![h] = hd1], log1)
             ELSE LET meta == hd1.attr_base # 0
                      hd2 == IF meta THEN [hd1 EXCEPT !.attr_base = 0] ELSE hd1
                  IN  Res(0, Erase(bm, h), [hs EXCEPT ![h] = hd2],
                          log1 \o (IF meta THEN <<"munmap">> ELSE <<>>))

\* release that empties the whole table when one record's count reaches zero.
release_locked_clear(bm, hs, h, uo) ==
    IF h \notin DOMAIN bm THEN Res(-EINVAL, bm, hs, <<>>)
    ELSE IF bm[h].ref_count = 0 THEN Res(-EINVAL, bm, hs, <<"BUG">>)
    ELSE LET n == bm[h].ref_count - 1 IN
         IF n # 0 THEN Res(0, [bm EXCEPT ![h].ref_count = n], hs, <<>>)
         ELSE LET mapped == bm[h].bases[1] # 0
                  hd1 == IF mapped THEN mali_gralloc_ion_unmap(hs[h]) ELSE hs[h]
                  meta == hd1.attr_base # 0
                  hd2 == IF meta THEN [hd1 EXCEPT !.attr_base = 0] ELSE hd1
              IN  Res(0, << >>, [hs EXCEPT ![h] = hd2],
                      (IF mapped THEN UnmapLog(uo) ELSE <<>>)
                         \o (IF meta THEN <<"munmap">> ELSE <<>>))

\* BufferManager::release, after its validate_locked call succeeded (lines 227-254);
\* uo is the outcome of mali_gralloc_ion_unmap, whose result line 243 does not read.
release_locked(bm, hs, h, uo) ==
    IF h \notin DOMAIN bm THEN Res(-EINVAL, bm, hs, <<>>)
    ELSE IF bm[h].ref_count = 0 THEN Res(-EINVAL, bm, hs, <<"BUG">>)
    ELSE LET n == bm[h].ref_count - 1 IN
         IF n # 0 THEN Res(0, [bm EXCEPT ![h].ref_count = n], hs, <<>>)
         ELSE LET mapped == bm[h].bases[1] # 0
                  hd1 == IF mapped THEN mali_gralloc_ion_unmap(hs[h]) ELSE hs[h]
                  meta == hd1.attr_base # 0
                  hd2 == IF meta THEN [hd1 EXCEPT !.attr_base = 0] ELSE hd1
              IN  Res(0, Erase(bm, h), [hs EXCEPT ![h] = hd2],
                      (IF mapped THEN UnmapLog(uo) ELSE <<>>)
                         \o (IF meta THEN <<"munmap">> ELSE <<>>))

(* ------------------------------------------------------------------ *)
(* The registry mutex and the shape of a call                         *)
(* ------------------------------------------------------------------ *)

NoHandle == "none"

\* A guard that takes the mutex without waiting for it.
lock_guard_nowait(t) == lock' = t

\* std::lock_guard<std::mutex> _l(lock): the constructor blocks until the mutex is free.
lock_guard(t) == lock = NoThread /\ lock' = t

\* A guard that ends right after the validation step, as if the function had called
\* the public validate and gone on without the mutex.
guard_scope_dropped(t, next_pc) == NoThread

\* The guard lives until the function returns: the mutex is held at every later
\* position of the function and released on return.
guard_scope(t, next_pc) == IF next_pc = "idle" THEN NoThread ELSE t

State == [bm |-> buffer_map, hs |-> hnd]
NoSnap == [bm |-> << >>, hs |-> << >>]

NoObs == [t |-> NoThread, op |-> "none", h |-> NoHandle, ret |-> 0, ext |-> <<>>,
          pre |-> NoSnap]

InFlight(h, pcs) == Cardinality({t \in Threads : pc[t] \in pcs /\ arg[t] = h})

RefCount(bm, h) == IF h \in DOMAIN bm THEN bm[h].ref_count ELSE 0

\* Thread t's call op moves on to next_pc with registry result r; "idle" is the
\* return, which the observer records.
Step(t, op, next_pc, r) ==
    /\ pc' = [pc EXCEPT ![t] = next_pc]
    /\ lock' = guard_scope(t, next_pc)
    /\ buffer_map' = r.bm
    /\ hnd' = r.hs
    /\ IF next_pc = "idle"
       THEN /\ obs' = [t |-> t, op |-> op, h |-> arg[t], ret |-> r.ret, ext |-> r.ext,
                       pre |-> snap[t]]
            /\ arg' = [arg EXCEPT ![t] = NoHandle]
            /\ snap' = [snap EXCEPT ![t] = NoSnap]
       ELSE /\ obs' = NoObs
            /\ UNCHANGED <<arg, snap>>

(* ------------------------------------------------------------------ *)
(* retain                                                             *)
(* ------------------------------------------------------------------ *)

\* Lines 173-177: the well-formedness check, made before the mutex is taken.
RetainCall(t, h) ==
    /\ pc[t] = "idle"
    /\ RefCount(buffer_map, h) + InFlight(h, {"r_lock", "r_body"}) < MaxRef
    /\ calls[h] + InFlight(h, {"r_lock", "r_body"}) < MaxRef
    /\ IF private_handle_validate(hnd[h]) < 0
       THEN /\ obs' = [t |-> t, op |-> "retain", h |-> h, ret |-> -EINVAL, ext |-> <<>>,
                       pre |-> State]
            /\ calls' = [calls EXCEPT ![h] = @ + 1]
            /\ UNCHANGED <<pc, arg>>
       ELSE /\ pc' = [pc EXCEPT ![t] = "r_lock"]
            /\ arg' = [arg EXCEPT ![t] = h]
            /\ obs' = NoObs
            /\ UNCHANGED calls
    /\ UNCHANGED <<buffer_map, hnd, lock, snap, okCalls, mapCount, nTamper>>

\* Line 178.
RetainLock(t) ==
    /\ pc[t] = "r_lock"
    /\ lock_guard(t)
    /\ pc' = [pc EXCEPT ![t] = "r_body"]
    /\ snap' = [snap EXCEPT ![t] = State]
    /\ obs' = NoObs
    /\ UNCHANGED <<buffer_map, hnd, arg, calls, okCalls, mapCount, nTamper>>

\* Lines 180-202.
RetainBody(t) ==
    /\ pc[t] = "r_body"
    /\ LET h == arg[t]
           r == retain_locked(buffer_map, hnd, h)
       IN  /\ Step(t, "retain", "idle", r)
           /\ calls' = [calls EXCEPT ![h] = @ + 1]
           /\ okCalls' = [okCalls EXCEPT ![h] = IF r.ret = 0 THEN @ + 1 ELSE @]
           /\ mapCount' = [mapCount EXCEPT ![h] = IF h \in DOMAIN buffer_map THEN @ ELSE 0]
    /\ UNCHANGED nTamper

(* ------------------------------------------------------------------ *)
(* map                                                                *)
(* ------------------------------------------------------------------ *)

\* A call that takes the mutex on entry begins.
Enter(t, h, next_pc) ==
    /\ pc[t] = "idle"
    /\ lock_guard(t)
    /\ pc' = [pc EXCEPT ![t] = next_pc]
    /\ arg' = [arg EXCEPT ![t] = h]
    /\ snap' = [snap EXCEPT ![t] = State]
    /\ obs' = NoObs
    /\ UNCHANGED <<buffer_map, hnd, calls, okCalls, mapCount, nTamper>>

\* Line 206.
MapCall(t, h) == Enter(t, h, "m_validate")

\* Lines 207-210.
MapValidate(t) ==
    /\ pc[t] = "m_validate"
    /\ LET r == validate_locked(buffer_map, hnd, arg[t])
       IN  Step(t, "map", IF r.ret # 0 THEN "idle" ELSE "m_map", r)
    /\ UNCHANGED <<calls, okCalls, mapCount, nTamper>>

\* Line 212.
MapLocked(t) ==
    /\ pc[t] = "m_map"
    /\ \E sane \in dmabuf_sanity_check(hnd[arg[t]]), mo \in MapperOutcomes(hnd[arg[t]]) :
          LET h == arg[t]
              r == map_locked(buffer_map, hnd, h, sane, mo)
          IN  /\ Step(t, "map", "idle", r)
              /\ mapCount' = [mapCount EXCEPT ![h] =
                                 IF r.ret = 0 /\ r.ext # <<>> /\ r.ext[Len(r.ext)] = "ion_map"
                                 THEN @ + 1 ELSE @]
    /\ UNCHANGED <<calls, okCalls, nTamper>>

(* ------------------------------------------------------------------ *)
(* release                                                            *)
(* ------------------------------------------------------------------ *)

\* Line 216.
ReleaseCall(t, h) ==
    /\ calls[h] - InFlight(h, {"rel_validate", "rel_body"}) > -MaxDebt
    /\ Enter(t, h, "rel_validate")

\* Lines 222-225.
ReleaseValidate(t) ==
    /\ pc[t] = "rel_validate"
    /\ LET r == validate_locked(buffer_map, hnd, arg[t])
       IN  /\ Step(t, "release", IF r.ret # 0 THEN "idle" ELSE "rel_body", r)
           /\ calls' = [calls EXCEPT ![arg[t]] = IF r.ret # 0 THEN @ - 1 ELSE @]
    /\ UNCHANGED <<okCalls, mapCount, nTamper>>

\* Lines 227-254.
ReleaseBody(t) ==
    /\ pc[t] = "rel_body"
    /\ \E uo \in UnmapOutcomes :
           LET h == arg[t]
               r == release_locked(buffer_map, hnd, h, uo)
           IN  /\ Step(t, "release", "idle", r)
               /\ calls' = [calls EXCEPT ![h] = @ - 1]
               /\ okCalls' = [okCalls EXCEPT ![h] = IF r.ret = 0 THEN @ - 1 ELSE @]
    /\ UNCHANGED <<mapCount, nTamper>>

(* ------------------------------------------------------------------ *)
(* validate                                                           *)
(* ------------------------------------------------------------------ *)

\* Line 258.
ValidateCall(t, h) == Enter(t, h, "v_body")

\* Line 259.
ValidateBody(t) ==
    /\ pc[t] = "v_body"
    /\ Step(t, "validate", "idle", validate_locked(buffer_map, hnd, arg[t]))
    /\ UNCHANGED <<calls, okCalls, mapCount, nTamper>>

(* ------------------------------------------------------------------ *)
(* The world outside the registry                                     *)
(* ------------------------------------------------------------------ *)

\* Sizes an outside writer may put into alloc_sizes.
TamperSizes == {4096, 8192}

Outside(hs) ==
    /\ nTamper < MaxTamper
    /\ nTamper' = nTamper + 1
    /\ hnd' = hs
    /\ obs' = NoObs
    /\ UNCHANGED <<buffer_map, lock, pc, arg, snap, calls, okCalls, mapCount>>

\* Some other code of the process writes a scratch address slot of a handle.
TamperBase(h, i, v) ==
    /\ hnd[h].bases[i] # v
    /\ Outside([hnd EXCEPT ![h].bases[i] = v])

\* Some other code of the process rewrites an advertised region size of a handle.
TamperSize(h, i, s) ==
    /\ hnd[h].alloc_sizes[i] # s
    /\ Outside([hnd EXCEPT ![h].alloc_sizes[i] = s])

\* The metadata region of a handle is mapped by a path outside the registry.
MapMetadata(h) ==
    /\ hnd[h].attr_base = 0
    /\ Outside([hnd EXCEPT ![h].attr_base = 1])

(* ------------------------------------------------------------------ *)
(* Specifications                                                     *)
(* ------------------------------------------------------------------ *)

\* The second handle starts with descriptors that pass the sanity check.
PeerConfigs == {c \in HandleConfigs : dmabuf_sanity_check(c) = {TRUE}}

Init ==
    /\ buffer_map = << >>
    /\ hnd \in [Handles -> HandleConfigs]
    /\ hnd["h2"] \in PeerConfigs
    /\ lock = NoThread
    /\ pc = [t \in Threads |-> "idle"]
    /\ arg = [t \in Threads |-> NoHandle]
    /\ snap = [t \in Threads |-> NoSnap]
    /\ obs = NoObs
    /\ calls = [h \in Handles |-> 0]
    /\ okCalls = [h \in Handles |-> 0]
    /\ mapCount = [h \in Handles |-> 0]
    /\ nTamper = 0

\* The four operations, called by any thread on any handle.
Next ==
    \/ \E t \in Threads, h \in Handles : RetainCall(t, h)
    \/ \E t \in Threads : RetainLock(t)
    \/ \E t \in Threads : RetainBody(t)
    \/ \E t \in Threads, h \in Handles : MapCall(t, h)
    \/ \E t \in Threads : MapValidate(t)
    \/ \E t \in Threads : MapLocked(t)
    \/ \E t \in Threads, h \in Handles : ReleaseCall(t, h)
    \/ \E t \in Threads : ReleaseValidate(t)
    \/ \E t \in Threads : ReleaseBody(t)
    \/ \E t \in Threads, h \in Handles : ValidateCall(t, h)
    \/ \E t \in Threads : ValidateBody(t)

Spec == Init /\ [][Next]_vars

\* Only retain and release are called.
NextRef ==
    \/ \E t \in Threads, h \in Handles : RetainCall(t, h)
    \/ \E t \in Threads : RetainLock(t)
    \/ \E t \in Threads : RetainBody(t)
    \/ \E t \in Threads, h \in Handles : ReleaseCall(t, h)
    \/ \E t \in Threads : ReleaseValidate(t)
    \/ \E t \in Threads : ReleaseBody(t)

SpecRef == Init /\ [][NextRef]_vars

\* One thread calling the four operations on one handle, with code outside the
\* registry writing the handle's fields in between (and during) the calls.
EnvHandles == {"h1"}
EnvThreads == {"t1"}

InitEnv == Init /\ hnd["h2"] = Handle(TRUE, <<3, 4>>, 1, <<4096>>, 4096, <<4096, 4096>>)

NextEnv ==
    \/ \E t \in EnvThreads, h \in EnvHandles : RetainCall(t, h)
    \/ \E t \in EnvThreads : RetainLock(t)
    \/ \E t \in EnvThreads : RetainBody(t)
    \/ \E t \in EnvThreads, h \in EnvHandles : MapCall(t, h)
    \/ \E t \in EnvThreads : MapValidate(t)
    \/ \E t \in EnvThreads : MapLocked(t)
    \/ \E t \in EnvThreads, h \in EnvHandles : ReleaseCall(t, h)
    \/ \E t \in EnvThreads : ReleaseValidate(t)
    \/ \E t \in EnvThreads : ReleaseBody(t)
    \/ \E t \in EnvThreads, h \in EnvHandles : ValidateCall(t, h)
    \/ \E t \in EnvThreads : ValidateBody(t)
    \/ \E h \in EnvHandles, i \in Regions, v \in 0..MaxAddr : TamperBase(h, i, v)
    \/ \E h \in EnvHandles, i \in Regions, s \in TamperSizes : TamperSize(h, i, s)
    \/ \E h \in EnvHandles : MapMetadata(h)

SpecEnv == InitEnv /\ [][NextEnv]_vars

\* Handles with one client-facing descriptor whose advertised sizes and OS-side
\* lengths sit at the edges of the length check and of the unsigned size range.
SizeConfigs ==
    { Handle(TRUE, <<3, 4>>, 1, <<a>>, m[1], <<l, m[2]>>) :
          a \in {4096, 8192, 2^(SizeBits - 1), 2^SizeBits - PAGE_SIZE, 2^SizeBits - 1},
          l \in {-1, 0, 4095, 4096, 8192, 12289},
          m \in {<<4096, 4096>>, <<4096, 0>>, <<2^SizeBits - 1, 0>>} }

InitSize ==
    /\ buffer_map = << >>
    /\ hnd \in [Handles -> SizeConfigs \cup PeerConfigs]
    /\ hnd["h1"] \in SizeConfigs
    /\ hnd["h2"] = Handle(TRUE, <<3, 4>>, 1, <<4096>>, 4096, <<4096, 4096>>)
    /\ lock = NoThread
    /\ pc = [t \in Threads |-> "idle"]
    /\ arg = [t \in Threads |-> NoHandle]
    /\ snap = [t \in Threads |-> NoSnap]
    /\ obs = NoObs
    /\ calls = [h \in Handles |-> 0]
    /\ okCalls = [h \in Handles |-> 0]
    /\ mapCount = [h \in Handles |-> 0]
    /\ nTamper = 0

\* One thread calling the four operations on the one handle.
NextSize ==
    \/ \E t \in EnvThreads, h \in EnvHandles : RetainCall(t, h)
    \/ \E t \in EnvThreads : RetainLock(t)
    \/ \E t \in EnvThreads : RetainBody(t)
    \/ \E t \in EnvThreads, h \in EnvHandles : MapCall(t, h)
    \/ \E t \in EnvThreads : MapValidate(t)
    \/ \E t \in EnvThreads : MapLocked(t)
    \/ \E t \in EnvThreads, h \in EnvHandles : ReleaseCall(t, h)
    \/ \E t \in EnvThreads : ReleaseValidate(t)
    \/ \E t \in EnvThreads : ReleaseBody(t)
    \/ \E t \in EnvThreads, h \in EnvHandles : ValidateCall(t, h)
    \/ \E t \in EnvThreads : ValidateBody(t)

SpecSize == InitSize /\ [][NextSize]_vars

(* ------------------------------------------------------------------ *)
(* Reference counting                                                 *)
(* ------------------------------------------------------------------ *)

Quiet == \A t \in Threads : pc[t] = "idle"

\* C1 as stated: for a well-formed handle, after k retain calls and j <= k release
\* calls in any order and nothing else, ref_count = k - j and the record exists
\* iff k > j.
C1_AnyOrder ==
    \A h \in Handles :
        (Quiet /\ hnd[h].wf /\ calls[h] >= 0) =>
            /\ RefCount(buffer_map, h) = calls[h]
            /\ (h \in DOMAIN buffer_map <=> calls[h] > 0)

\* C1 (amended): counting the retain and release calls that returned success, k of
\* the one and j of the other, ref_count = k - j and the record exists iff k > j;
\* a balanced sequence leaves no record.
C1_RefCountIsBalance ==
    \A h \in Handles :
        /\ RefCount(buffer_map, h) = okCalls[h]
        /\ (h \in DOMAIN buffer_map <=> okCalls[h] > 0)

\* The retains and releases of a handle have balanced out: the release of its last
\* reference just returned 0 and the record is gone.
C1_Witness ==
    /\ obs.op = "release" /\ obs.ret = 0
    /\ obs.pre.bm[obs.h].ref_count = 1
    /\ okCalls[obs.h] = 0
    /\ obs.h \notin DOMAIN buffer_map

(* ------------------------------------------------------------------ *)
(* The public operations run alone                                    *)
(* ------------------------------------------------------------------ *)

\* int retain(buffer_handle_t handle), lines 173-203.
retain(S, h) ==
    IF private_handle_validate(S.hs[h]) < 0 THEN Res(-EINVAL, S.bm, S.hs, <<>>)
    ELSE retain_locked(S.bm, S.hs, h)

\* int map(buffer_handle_t handle), lines 205-213.
map(S, h, sane, mo) ==
    LET v == validate_locked(S.bm, S.hs, h)
    IN  IF v.ret # 0 THEN v ELSE map_locked(S.bm, S.hs, h, sane, mo)

\* int release(buffer_handle_t handle), lines 215-255.
release(S, h, uo) ==
    LET v == validate_locked(S.bm, S.hs, h)
    IN  IF v.ret # 0 THEN v ELSE release_locked(S.bm, S.hs, h, uo)

\* int validate(buffer_handle_t handle), lines 257-260.
validate(S, h) == validate_locked(S.bm, S.hs, h)

\* The results a call of op on h can have when it runs alone from state S.
Alone(op, S, h) ==
    CASE op = "retain"   -> {retain(S, h)}
      [] op = "map"      -> {map(S, h, sane, mo) :
                                sane \in dmabuf_sanity_check(S.hs[h]), mo \in MapperOutcomes(S.hs[h])}
      [] op = "release"  -> {release(S, h, uo) : uo \in UnmapOutcomes}
      [] op = "validate" -> {validate(S, h)}

Returned == obs.op # "none"
Logged(x) == \E i \in 1..Len(obs.ext) : obs.ext[i] = x
LockedPcs == {"r_body", "m_validate", "m_map", "rel_validate", "rel_body", "v_body"}
Present(S, h) == h \in DOMAIN S.bm
Mapped(S, h) == Present(S, h) /\ S.bm[h].bases[1] # 0

(* ------------------------------------------------------------------ *)
(* Invariants of the table                                            *)
(* ------------------------------------------------------------------ *)

\* C2: whenever the mutex is free, every record in the table has ref_count >= 1
\* (a record is observable exactly while it is referenced), and no call has ever
\* taken a "BUG: ref count 0" branch.
C2_RecordIffReferenced ==
    /\ lock = NoThread => \A h \in DOMAIN buffer_map : buffer_map[h].ref_count >= 1
    /\ ~Logged("BUG")

\* A terminal release returned while another handle holds two references.
C2_Witness ==
    /\ lock = NoThread
    /\ obs.op = "release" /\ obs.ret = 0 /\ ~Present(State, obs.h)
    /\ \E h \in DOMAIN buffer_map : buffer_map[h].ref_count = 2

(* ------------------------------------------------------------------ *)
(* Locking                                                            *)
(* ------------------------------------------------------------------ *)

\* C3 as stated: a thread that is anywhere inside one of the four operations,
\* retain's well-formedness check included, holds the registry mutex.
C3_LockHeldThroughout == \A t \in Threads : pc[t] # "idle" => lock = t

\* C3 (amended): map, release and validate hold the mutex from entry to return;
\* retain holds it from after its well-formedness check to its return. The check
\* itself has run before the mutex is taken.
C3_LockHeldAfterGuard ==
    /\ \A t \in Threads : pc[t] \in LockedPcs => lock = t
    /\ \A t \in Threads : pc[t] = "r_lock" => lock # t /\ hnd[arg[t]].wf

\* One thread is inside release with the mutex while another has passed retain's
\* check and waits for the mutex.
C3_Witness ==
    \E t, u \in Threads : pc[t] = "rel_body" /\ lock = t /\ pc[u] = "r_lock"

\* C4: every call that returns has the status and leaves the table and the handles
\* as the same call run alone would from the state in which it took the mutex, and
\* no part of its effect is visible before it returns: the calls are linearizable
\* in the order in which they take the mutex.
C4_Linearizable ==
    /\ Returned => \E r \in Alone(obs.op, obs.pre, obs.h) :
                       /\ r.ret = obs.ret
                       /\ r.bm = buffer_map
                       /\ r.hs = hnd
    /\ \A t \in Threads : pc[t] \in LockedPcs => State = snap[t]

\* A release returned on a handle on which another thread's retain is under way.
C4_Witness ==
    /\ obs.op = "release" /\ obs.ret = 0
    /\ \E u \in Threads : u # obs.t /\ pc[u] = "r_lock" /\ arg[u] = obs.h

\* C5: in map and release, when the guarded mutation is about to run the thread
\* still holds the mutex it validated under, no other thread is inside a locked
\* section, the table is as it was at validation, and the validation still passes.
C5_ValidateThenMutate ==
    \A t \in Threads :
        pc[t] \in {"m_map", "rel_body"} =>
            /\ lock = t
            /\ \A u \in Threads \ {t} : pc[u] \notin LockedPcs
            /\ buffer_map = snap[t].bm
            /\ validate_locked(buffer_map, hnd, arg[t]).ret = 0

\* map has validated and is about to map while another thread wants the same handle.
C5_Witness ==
    \E t, u \in Threads : pc[t] = "m_map" /\ pc[u] = "r_lock" /\ arg[u] = arg[t]

(* ------------------------------------------------------------------ *)
(* Unknown handles, map, validate                                     *)
(* ------------------------------------------------------------------ *)

\* C6: a validate, map or release call on a handle that has no record returns
\* -EINVAL, creates no record, changes nothing and calls no MemMapper function.
C6_UnknownHandleRejected ==
    (obs.op \in {"validate", "map", "release"} /\ ~Present(obs.pre, obs.h)) =>
        /\ obs.ret = -EINVAL
        /\ ~Present(State, obs.h)
        /\ State = obs.pre
        /\ obs.ext = <<>>

\* release was refused on a well-formed handle whose record, once mapped, is gone.
C6_Witness ==
    /\ obs.op = "release" /\ obs.ret = -EINVAL
    /\ hnd[obs.h].wf /\ ~Present(obs.pre, obs.h)
    /\ mapCount[obs.h] = 1

\* C7: a successful map of a record that is already mapped changes no address in
\* the record or the handle and does not call the MemMapper; over the life of a
\* record MemMapper.map succeeds at most once.
C7_MapIdempotent ==
    /\ \A h \in Handles : mapCount[h] <= 1
    /\ (obs.op = "map" /\ obs.ret = 0 /\ Mapped(obs.pre, obs.h)) =>
           /\ buffer_map[obs.h].bases = obs.pre.bm[obs.h].bases
           /\ hnd[obs.h].bases = obs.pre.hs[obs.h].bases
           /\ ~Logged("ion_map")

\* A second map returned 0 on a record the first one had mapped.
C7_Witness ==
    /\ obs.op = "map" /\ obs.ret = 0 /\ Mapped(obs.pre, obs.h)
    /\ mapCount[obs.h] = 1

\* C8: when the sanity check rejects the handle of a registered, unmapped record,
\* map returns -EINVAL, the MemMapper is not called, and the record and the
\* handle's addresses stay null.
C8_SanityRejection ==
    (/\ obs.op = "map"
     /\ Present(obs.pre, obs.h) /\ ~Mapped(obs.pre, obs.h)
     /\ dmabuf_sanity_check(obs.pre.hs[obs.h]) = {FALSE}) =>
        /\ obs.ret = -EINVAL
        /\ ~Logged("ion_map")
        /\ Present(State, obs.h) /\ ~Mapped(State, obs.h)
        /\ buffer_map[obs.h] = obs.pre.bm[obs.h]
        /\ hnd[obs.h].bases = Zeros

\* map reached the sanity check on a validated handle whose descriptor is too long.
C8_Witness ==
    /\ obs.op = "map" /\ obs.ret = -EINVAL
    /\ validate(obs.pre, obs.h).ret = 0
    /\ dmabuf_sanity_check(obs.pre.hs[obs.h]) = {FALSE}

\* C9: a validate call, whatever it returns, leaves the table (membership, every
\* ref_count, cached addresses and sizes) and every handle (bases, attr_base)
\* unchanged and calls no MemMapper function.
C9_ValidatePure ==
    obs.op = "validate" => State = obs.pre /\ obs.ext = <<>>

\* validate returned 0 on a mapped record.
C9_Witness ==
    obs.op = "validate" /\ obs.ret = 0 /\ Mapped(State, obs.h)

(* ------------------------------------------------------------------ *)
(* Writes by code outside the registry                                *)
(* ------------------------------------------------------------------ *)

\* The handle's scratch state disagrees with its record: an in-use region's address
\* or size differs from the cached one (mapped), or some address is set (unmapped).
Mismatch(S, h) ==
    /\ Present(S, h)
    /\ IF Mapped(S, h)
       THEN \E i \in 1..S.hs[h].fd_count :
               \/ S.hs[h].bases[i] # S.bm[h].bases[i]
               \/ S.hs[h].alloc_sizes[i] # S.bm[h].alloc_sizes[i]
       ELSE \E i \in Regions : S.hs[h].bases[i] # 0

\* C10: while the handle of a record mismatches it, the validation step of validate
\* and of release fails: the call returns -EINVAL there and then, with the table
\* (ref_count included) untouched.
C10_TamperRejected ==
    [][\A t \in Threads :
          (pc[t] \in {"v_body", "rel_validate"} /\ pc'[t] # pc[t] /\ Mismatch(State, arg[t])) =>
              /\ pc'[t] = "idle"
              /\ obs'.ret = -EINVAL
              /\ buffer_map' = buffer_map]_vars

\* release was refused on a mapped record whose handle an outside write has made
\* to disagree with it; the reference is still held.
C10_Witness ==
    /\ obs.op = "release" /\ obs.ret = -EINVAL
    /\ Mapped(State, obs.h) /\ Mismatch(State, obs.h)
    /\ buffer_map[obs.h].ref_count = obs.pre.bm[obs.h].ref_count

(* ------------------------------------------------------------------ *)
(* Teardown                                                           *)
(* ------------------------------------------------------------------ *)

IsMemCall(x) == x \in {"ion_map", "ion_unmap", "munmap"}

\* The calls out of the registry that a log records, in the order they were made.
MemCalls(ext) == SelectSeq(ext, IsMemCall)

\* C11: the release step that takes ref_count from 1 to 0 calls, in this order,
\* mali_gralloc_ion_unmap iff the record is mapped and munmap on the metadata iff
\* attr_base is non-null (whether or not the record is mapped), and nothing else;
\* it returns 0 and leaves the record absent, attr_base null and, when no outside
\* write has landed since the validation, every scratch address zero. A release
\* step that leaves ref_count >= 1 calls nothing, only decrements the count and
\* leaves every handle as it was.
C11_TerminalTeardown ==
    [][\A t \in Threads :
          (pc[t] = "rel_body" /\ pc'[t] = "idle") =>
              LET h == arg[t] IN
              IF buffer_map[h].ref_count = 1
              THEN /\ MemCalls(obs'.ext) =
                          (IF buffer_map[h].bases[1] # 0 THEN <<"ion_unmap">> ELSE <<>>)
                             \o (IF hnd[h].attr_base # 0 THEN <<"munmap">> ELSE <<>>)
                   /\ obs'.ret = 0
                   /\ h \notin DOMAIN buffer_map'
                   /\ hnd'[h].attr_base = 0
                   /\ (Mismatch(State, h) \/ hnd'[h].bases = Zeros)
              ELSE /\ obs'.ret = 0
                   /\ obs'.ext = <<>>
                   /\ buffer_map' = [buffer_map EXCEPT ![h].ref_count = @ - 1]
                   /\ hnd' = hnd]_vars

\* The last reference of a mapped record whose metadata was mapped too has just been
\* released: both unmaps were made, regions first, and nothing is left behind.
C11_Witness ==
    /\ obs.op = "release" /\ obs.ret = 0
    /\ obs.ext = <<"ion_unmap", "munmap">>
    /\ ~Present(State, obs.h)
    /\ hnd[obs.h].bases = Zeros /\ hnd[obs.h].attr_base = 0

InLog(ext, x) == \E i \in 1..Len(ext) : ext[i] = x

\* C12: when mali_gralloc_ion_unmap fails in the release step that takes a mapped
\* record's ref_count to zero, the step still unmaps the metadata (if attr_base is
\* non-null) after the failed call, leaves attr_base null, erases the record and
\* returns 0.
C12_UnmapFailureTolerated ==
    [][\A t \in Threads :
          (pc[t] = "rel_body" /\ pc'[t] = "idle" /\ InLog(obs'.ext, "unmap_failed")) =>
              LET h == arg[t] IN
              /\ buffer_map[h].ref_count = 1 /\ buffer_map[h].bases[1] # 0
              /\ obs'.ret = 0
              /\ h \notin DOMAIN buffer_map'
              /\ hnd[h].attr_base # 0 => obs'.ext = <<"ion_unmap", "unmap_failed", "munmap">>
              /\ hnd'[h].attr_base = 0]_vars

\* The region unmap failed in a terminal release of a record with mapped metadata;
\* the metadata was unmapped all the same and the record is gone.
C12_Witness ==
    /\ obs.op = "release" /\ obs.ret = 0
    /\ obs.ext = <<"ion_unmap", "unmap_failed", "munmap">>
    /\ Mapped(obs.pre, obs.h)
    /\ ~Present(State, obs.h)
    /\ hnd[obs.h].attr_base = 0

(* ------------------------------------------------------------------ *)
(* Failure of the MemMapper's map                                     *)
(* ------------------------------------------------------------------ *)

\* C13: when mali_gralloc_ion_map fails for a registered, unmapped record, map
\* returns the MemMapper's status, the table (the record's ref_count included) and
\* the handles are as before the call with the record unmapped, and a map called
\* again from there passes validation, reaches the MemMapper whenever the sanity
\* check passes again, returns the MemMapper's status and, if that is success,
\* leaves the record mapped.
C13_MapFailureRetriable ==
    (obs.op = "map" /\ Logged("ion_map") /\ obs.ret # 0) =>
        /\ obs.ret \in MapperErrors
        /\ Present(State, obs.h) /\ ~Mapped(State, obs.h)
        /\ State = obs.pre
        /\ validate(State, obs.h).ret = 0
        /\ TRUE \in dmabuf_sanity_check(hnd[obs.h])
        /\ \A mo \in MapperOutcomes(hnd[obs.h]) :
              LET r == map(State, obs.h, TRUE, mo)
              IN  /\ InLog(r.ext, "ion_map")
                  /\ r.ret = mo.err
                  /\ mo.err = 0 => Mapped([bm |-> r.bm, hs |-> r.hs], obs.h)

\* The MemMapper failed to map a record that holds two references.
C13_Witness ==
    /\ obs.op = "map" /\ obs.ret \in MapperErrors /\ Logged("ion_map")
    /\ Present(State, obs.h) /\ ~Mapped(State, obs.h)
    /\ buffer_map[obs.h].ref_count = 2

(* ------------------------------------------------------------------ *)
(* retain                                                             *)
(* ------------------------------------------------------------------ *)

\* C14: a retain call on a handle that has no record, if the handle is well-formed,
\* returns 0, creates a record with ref_count 1 and null addresses, and sets every
\* scratch address of the handle to zero whatever was in them, so that a validate
\* called next returns 0; if the handle is ill-formed it returns -EINVAL, creates no
\* record and changes nothing.
C14_FirstRetain ==
    (obs.op = "retain" /\ ~Present(obs.pre, obs.h)) =>
        IF private_handle_validate(obs.pre.hs[obs.h]) < 0
        THEN /\ obs.ret = -EINVAL
             /\ ~Present(State, obs.h)
             /\ State = obs.pre
        ELSE /\ obs.ret = 0
             /\ Present(State, obs.h)
             /\ buffer_map[obs.h] = [MappedData EXCEPT !.ref_count = 1]
             /\ hnd[obs.h].bases = Zeros
             /\ validate(State, obs.h).ret = 0

\* A first retain returned on a handle that came with a stale address in a scratch
\* slot; the slot is zero now.
C14_Witness ==
    /\ obs.op = "retain" /\ obs.ret = 0
    /\ ~Present(obs.pre, obs.h)
    /\ obs.pre.hs[obs.h].bases # Zeros
    /\ hnd[obs.h].bases = Zeros
    /\ buffer_map[obs.h].ref_count = 1

(* ------------------------------------------------------------------ *)
(* Life of a mapping                                                  *)
(* ------------------------------------------------------------------ *)

\* C15: a step taken while a record is mapped either keeps the record, with the
\* same cached addresses and sizes, or is the return of the release that held its
\* last reference; and mali_gralloc_ion_unmap is called by no step but the return
\* of a release that takes a ref_count from 1 to zero and erases the record.
C15_MappedUntilDestroyed ==
    [][/\ \A h \in Handles :
             Mapped(State, h) =>
                 IF h \in DOMAIN buffer_map'
                 THEN /\ buffer_map'[h].bases = buffer_map[h].bases
                      /\ buffer_map'[h].alloc_sizes = buffer_map[h].alloc_sizes
                 ELSE /\ obs'.op = "release" /\ obs'.h = h
                      /\ buffer_map[h].ref_count = 1
       /\ InLog(obs'.ext, "ion_unmap") =>
             /\ obs'.op = "release"
             /\ buffer_map[obs'.h].ref_count = 1
             /\ obs'.h \notin DOMAIN buffer_map']_vars

\* A release returned 0 on a mapped record that holds a further reference: the
\* record is still mapped where it was and no unmap was made.
C15_Witness ==
    /\ obs.op = "release" /\ obs.ret = 0 /\ obs.ext = <<>>
    /\ Mapped(obs.pre, obs.h) /\ Mapped(State, obs.h)
    /\ buffer_map[obs.h].bases = obs.pre.bm[obs.h].bases
    /\ buffer_map[obs.h].ref_count = 1

(* ------------------------------------------------------------------ *)
(* Agreement of a handle with its record                              *)
(* ------------------------------------------------------------------ *)

\* C16: whenever the mutex is free (no operation is between its validation and its
\* return) and no outside write has been made, every handle that has a record
\* agrees with it: if the record is unmapped all its addresses are null and all the
\* handle's scratch addresses are zero; if it is mapped, the handle's scratch
\* address of every region equals the record's. A failed map leaves it so too.
C16_HandleAgreesWithRecord ==
    lock = NoThread =>
        \A h \in DOMAIN buffer_map :
            IF buffer_map[h].bases[1] = 0
            THEN buffer_map[h].bases = Zeros /\ hnd[h].bases = Zeros
            ELSE \A i \in Regions : hnd[h].bases[i] = buffer_map[h].bases[i]

\* A map that the MemMapper failed has returned on one handle while another handle
\* is mapped with two regions.
C16_Witness ==
    /\ lock = NoThread
    /\ obs.op = "map" /\ obs.ret \in MapperErrors
    /\ Present(State, obs.h) /\ hnd[obs.h].bases = Zeros
    /\ \E h \in DOMAIN buffer_map : buffer_map[h].bases[1] # 0 /\ buffer_map[h].bases[2] # 0

(* ------------------------------------------------------------------ *)
(* Independence of handles                                            *)
(* ------------------------------------------------------------------ *)

\* State S with everything that is not about handle h taken away: no record but
\* h's, and every other handle replaced by one fixed handle.
Only(S, h) ==
    [bm |-> [x \in DOMAIN S.bm \cap {h} |-> S.bm[x]],
     hs |-> [x \in Handles |-> IF x = h THEN S.hs[h] ELSE CHOOSE c \in HandleConfigs : TRUE]]

\* C17: a call on one handle leaves every other handle's record (existence,
\* ref_count, cached addresses and sizes) and every other handle's fields as they
\* were when it took the mutex; and its status and what it does to its own record
\* and handle are those of the same call made in a state that holds nothing but
\* its own handle and record, so that they do not depend on what was done to others.
C17_HandlesIndependent ==
    Returned =>
        /\ \A b \in Handles \ {obs.h} :
              /\ Present(State, b) <=> Present(obs.pre, b)
              /\ Present(State, b) => buffer_map[b] = obs.pre.bm[b]
              /\ hnd[b] = obs.pre.hs[b]
        /\ \E r \in Alone(obs.op, Only(obs.pre, obs.h), obs.h) :
              /\ r.ret = obs.ret
              /\ r.hs[obs.h] = hnd[obs.h]
              /\ obs.h \in DOMAIN r.bm <=> Present(State, obs.h)
              /\ Present(State, obs.h) => r.bm[obs.h] = buffer_map[obs.h]

\* The last reference of one handle was released, regions unmapped, while another
\* handle is mapped and holds two references.
C17_Witness ==
    /\ obs.op = "release" /\ obs.ret = 0 /\ Logged("ion_unmap")
    /\ ~Present(State, obs.h)
    /\ \E b \in Handles \ {obs.h} : Mapped(State, b) /\ buffer_map[b].ref_count = 2

(* ------------------------------------------------------------------ *)
(* The length check                                                   *)
(* ------------------------------------------------------------------ *)

\* The length check as specified, on the unsigned advertised size.
LengthOk(len, alloc_size) ==
    len = -1 \/ (alloc_size <= len /\ len <= alloc_size + PAGE_SIZE)

\* C18 as stated: when map gets as far as the sanity check on a handle whose
\* descriptor count is right, the check lets it through to the MemMapper exactly
\* when every client-facing descriptor's length is -1 or within
\* [alloc_sizes[i], alloc_sizes[i] + PAGE_SIZE] and the metadata descriptor's is -1
\* or within [attr_size, attr_size + PAGE_SIZE], whatever the advertised sizes.
C18_LengthCheckExact ==
    (/\ obs.op = "map"
     /\ validate(obs.pre, obs.h).ret = 0
     /\ ~Mapped(obs.pre, obs.h)
     /\ hnd[obs.h].fd_count = valid_fd_count(hnd[obs.h]) - 1) =>
        LET hd == obs.pre.hs[obs.h] IN
        Logged("ion_map") <=>
            /\ \A i \in 1..hd.fd_count : LengthOk(get_buffer_size(hd, i), hd.alloc_sizes[i])
            /\ LengthOk(get_buffer_size(hd, get_share_attr_fd(hd)), hd.attr_size)

(* ------------------------------------------------------------------ *)
(* Failed calls                                                       *)
(* ------------------------------------------------------------------ *)

\* C19: a retain, map, release or validate call that returns a non-zero status
\* without having called the MemMapper leaves the table (membership, every
\* ref_count, cached addresses and sizes) and every handle (scratch addresses,
\* attr_base) exactly as they were when the call began.
C19_FailureChangesNothing ==
    (Returned /\ obs.ret # 0 /\ ~Logged("ion_map") /\ ~Logged("ion_unmap")) =>
        State = obs.pre

\* map was refused by the sanity check on a record that holds two references,
\* while another handle is mapped.
C19_Witness ==
    /\ obs.op = "map" /\ obs.ret = -EINVAL /\ obs.ext = <<>>
    /\ Present(obs.pre, obs.h) /\ obs.pre.bm[obs.h].ref_count = 2
    /\ validate(obs.pre, obs.h).ret = 0
    /\ \E b \in Handles \ {obs.h} : Mapped(State, b)

(* ------------------------------------------------------------------ *)
(* retain on a handle that disagrees with its record                  *)
(* ------------------------------------------------------------------ *)

\* C20: the locked part of a retain call that finds a record for its handle returns
\* 0, adds exactly one to that record's ref_count and changes nothing else in the
\* table or in any handle, whether or not the handle agrees with the record; and
\* while a handle mismatches its record, and no release of it has already passed
\* its validation, no step removes the record or lowers its ref_count.
C20_RetainSkipsValidation ==
    [][/\ \A t \in Threads :
             (pc[t] = "r_body" /\ pc'[t] = "idle" /\ Present(State, arg[t])) =>
                 /\ obs'.ret = 0
                 /\ buffer_map' = [buffer_map EXCEPT ![arg[t]].ref_count = @ + 1]
                 /\ hnd' = hnd
       /\ \A h \in Handles :
             (Mismatch(State, h) /\ \A t \in Threads : ~(pc[t] = "rel_body" /\ arg[t] = h)) =>
                 /\ h \in DOMAIN buffer_map'
                 /\ buffer_map'[h].ref_count >= buffer_map[h].ref_count]_vars

\* retain returned 0 and took the count to two on a mapped record whose handle an
\* outside write has made to disagree with it: validate and release would fail.
C20_Witness ==
    /\ obs.op = "retain" /\ obs.ret = 0
    /\ Mapped(State, obs.h) /\ Mismatch(State, obs.h)
    /\ Mismatch(obs.pre, obs.h)
    /\ buffer_map[obs.h].ref_count = 2
    /\ validate(State, obs.h).ret = -EINVAL
    /\ \A uo \in UnmapOutcomes : release(State, obs.h, uo).ret = -EINVAL

====
